---------------------------- MODULE Spec2Model ----------------------------
(***************************************************************************)
(* Model of the WFMU playlist scraper / Spotify matcher (capture.py) and   *)
(* of the socket handler that streams its output (app.py).                 *)
(*                                                                         *)
(* Text is modelled by TLA+ strings, character by character (Len, SubSeq,  *)
(* Head, Tail and \o act on strings).  The module is written in ASCII, so   *)
(* the few non-ASCII characters the code names are written with ASCII      *)
(* glyphs that are used for nothing else in the model's texts:             *)
(*    ARROW  U+2192  rightwards arrow        LDQ  U+201C   RDQ  U+201D     *)
(*    ENDASH U+2013  EMDASH U+2014           UUML U+00FC (u with diaeresis)*)
(***************************************************************************)
EXTENDS Naturals, Sequences, FiniteSets, TLC

VARIABLES
    input,      \* argument of the pure function under check (or NoValue)
    output,     \* its return value (or NoValue while not yet applied)
    sp,         \* capture.sp: TRUE iff a Spotify client was constructed at import
    mpc,        \* best_spotify_match: position ("idle", "call", "attempt", "select", "ret")
    artist,     \* best_spotify_match: argument artist
    title,      \* best_spotify_match: argument title
    k,          \* best_spotify_match: index into attempts of the next query
    items,      \* best_spotify_match: local items
    calls,      \* the sp.search calls of this invocation: <<query, outcome>>, in order
    ret,        \* best_spotify_match: returned <<indicator, url>>
    html,       \* parse_tracks: the document parsed from html_bytes (or NoValue)
    parse_pc,   \* parse_tracks: position ("idle", "tables", "classes", "rows", "ret")
    tracks,     \* parse_tracks: local tracks, then the returned list
    returned_by, \* which return statement of parse_tracks returned (0: none yet)
    run_pc,     \* scrape_and_match: position ("idle", "fetch", "parse", "loop", "match", "ret")
    row_i,      \* scrape_and_match: index of the row the loop stands at
    sm_items,   \* scrape_and_match: local items
    result,     \* scrape_and_match: the returned dict (or NoValue)
    match_args, \* the <<artist, title>> best_spotify_match was called with, in order
    searches,   \* number of sp.search calls made since the process started
    cli_pc,     \* capture.py __main__: position ("idle", "start", "run", "print", "exit")
    user_in,    \* capture.py __main__: user_in
    print_i,    \* capture.py __main__: i of the enumerate loop
    stdout,     \* every line the process has printed, in order
    exit_code,  \* the process's exit status (or NoValue while it runs)
    h_pc,       \* start_wfmu: position ("none", "recv", "stream", "done")
    data,       \* start_wfmu: the event's payload
    pipe,       \* proc.stdout: lines printed and not yet read by the handler
    events      \* the events start_wfmu has emitted, in order

NoValue == "<none>"

(***************************************************************************)
(* Characters                                                              *)
(***************************************************************************)
ARROW  == ">"
LDQ    == "{"
RDQ    == "}"
ENDASH == "="
EMDASH == "_"
UUML   == "@"
DQ     == "\""
NL     == "\n"

\* What Python's \s and str.strip() treat as whitespace (those the model uses).
Whitespace == {" ", NL}

(***************************************************************************)
(* String helpers (Python str semantics)                                   *)
(***************************************************************************)
CharAt(s, i) == SubSeq(s, i, i)

Chars(s) == {CharAt(s, i) : i \in 1..Len(s)}

\* Python: sub in s
Contains(sub, s) ==
    \E i \in 1..(Len(s) + 1) :
        /\ i + Len(sub) - 1 <= Len(s)
        /\ SubSeq(s, i, i + Len(sub) - 1) = sub

\* Python: s.startswith(p)
StartsWith(s, p) == Len(p) <= Len(s) /\ SubSeq(s, 1, Len(p)) = p

\* s with every character of cs deleted (str.replace(c, "") for each c in cs)
RECURSIVE Remove(_, _)
Remove(s, cs) ==
    IF s = "" THEN ""
    ELSE (IF Head(s) \in cs THEN "" ELSE Head(s)) \o Remove(Tail(s), cs)

\* Python: s.lstrip(cs) / s.rstrip(cs) / s.strip(cs)
RECURSIVE LStrip(_, _)
LStrip(s, cs) ==
    IF s # "" /\ Head(s) \in cs THEN LStrip(Tail(s), cs) ELSE s

RECURSIVE RStrip(_, _)
RStrip(s, cs) ==
    IF s # "" /\ CharAt(s, Len(s)) \in cs
    THEN RStrip(SubSeq(s, 1, Len(s) - 1), cs)
    ELSE s

Strip(s, cs) == RStrip(LStrip(s, cs), cs)

\* Python: re.sub(r"\s+", " ", s)
RECURSIVE CollapseWs(_)
CollapseWs(s) ==
    IF s = "" THEN ""
    ELSE IF Head(s) \in Whitespace
         THEN " " \o CollapseWs(LStrip(s, Whitespace))
         ELSE Head(s) \o CollapseWs(Tail(s))

(***************************************************************************)
(* clean_title                                                             *)
(***************************************************************************)
\* title.split(ARROW, 1)[0] when ARROW occurs in title
FirstIndex(c, s) == CHOOSE i \in 1..Len(s) :
                        /\ CharAt(s, i) = c
                        /\ \A j \in 1..(i - 1) : CharAt(s, j) # c

CutArrow(s) ==
    IF Contains(ARROW, s) THEN SubSeq(s, 1, FirstIndex(ARROW, s) - 1) ELSE s

\* Characters removed by the three replace() calls
QuoteChars == {DQ, LDQ, RDQ}

\* The end of the leftmost-lazy match of \(.*?\) starting at an opening
\* parenthesis at position 1 of s: the first ")" after it, provided no line
\* break comes before it ("." does not match a line break); 0 if none.
RECURSIVE CloseAt(_, _)
CloseAt(s, i) ==
    IF i > Len(s) THEN 0
    ELSE IF CharAt(s, i) = ")" THEN i
    ELSE IF CharAt(s, i) = NL  THEN 0
    ELSE CloseAt(s, i + 1)

\* Mutant: only the first parenthesized block is removed (re.sub count=1).
RECURSIVE RemoveParensOnce(_)
RemoveParensOnce(s) ==
    IF s = "" THEN ""
    ELSE IF Head(s) = "(" /\ CloseAt(s, 2) # 0
         THEN SubSeq(s, CloseAt(s, 2) + 1, Len(s))
         ELSE Head(s) \o RemoveParensOnce(Tail(s))

\* re.sub(r"\(.*?\)", "", s): every leftmost, non-overlapping lazy match
RECURSIVE RemoveParens(_)
RemoveParens(s) ==
    IF s = "" THEN ""
    ELSE IF Head(s) = "(" /\ CloseAt(s, 2) # 0
         THEN RemoveParens(SubSeq(s, CloseAt(s, 2) + 1, Len(s)))
         ELSE Head(s) \o RemoveParens(Tail(s))

DashChars == {" ", "-", ENDASH, EMDASH}

clean_title(t) ==
    LET t1 == CutArrow(t)
        t2 == Remove(t1, QuoteChars)
        t3 == RemoveParens(t2)
        t4 == Strip(CollapseWs(t3), Whitespace)
    IN  Strip(t4, DashChars)

(***************************************************************************)
(* should_skip                                                             *)
(***************************************************************************)
UpperCase == "ABCDEFGHIJKLMNOPQRSTUVWXYZ"
LowerCase == "abcdefghijklmnopqrstuvwxyz"

LowerChar(c) ==
    IF \E i \in 1..Len(UpperCase) : CharAt(UpperCase, i) = c
    THEN CharAt(LowerCase, CHOOSE i \in 1..Len(UpperCase) : CharAt(UpperCase, i) = c)
    ELSE c

\* Python: s.lower()
RECURSIVE Lower(_)
Lower(s) == IF s = "" THEN "" ELSE LowerChar(Head(s)) \o Lower(Tail(s))

bad_terms == {"station id", "id break", "underwriting", "psa",
              "news", "traffic", "weather", "promo", "ad break",
              "mic break", "dj break", "talk break"}

should_skip(a0, t0) ==
    LET a == Strip(Lower(a0), {":", " "})
        t == Lower(t0)
    IN  \/ t = ""
        \/ StartsWith(a, "music behind dj") \/ Contains("behind dj", a)
        \/ \E b \in bad_terms : Contains(b, a) \/ Contains(b, t)
        \/ StartsWith(a, "music behind dj") /\ Contains("today in history", t)

(***************************************************************************)
(* fold_ascii, norm                                                        *)
(***************************************************************************)
\* Characters outside ASCII that NFKD leaves without an ASCII part: dropped
\* by encode("ascii", "ignore").
NonAsciiDropped == {ARROW, LDQ, RDQ, ENDASH, EMDASH}

\* unicodedata.normalize("NFKD", c).encode("ascii", "ignore").decode("ascii")
FoldChar(c) ==
    IF c = UUML THEN "u"
    ELSE IF c \in NonAsciiDropped THEN ""
    ELSE c

RECURSIVE fold_ascii(_)
fold_ascii(s) == IF s = "" THEN "" ELSE FoldChar(Head(s)) \o fold_ascii(Tail(s))

\* _PUNCT, as written in the source (applied after fold_ascii, so to ASCII
\* only), less the grave accent, which a string of this module cannot hold
\* and no text of the model contains.
PUNCT == "!\"#$%&'()*+,./:;<=>?@[\\]^_{|}~"

norm(s) ==
    Strip(CollapseWs(Remove(Lower(fold_ascii(s)), Chars(PUNCT))), Whitespace)

(***************************************************************************)
(* best_spotify_match                                                      *)
(***************************************************************************)
CHECK == "[v]"      \* U+2705, the "confirmed" indicator
TILDE == "~"        \* the "uncertain" indicator
CROSS == "[x]"      \* U+274C, the "no match" indicator
NOIND == ""         \* no Spotify client: no indicator

\* ", ".join(names)
RECURSIVE Join(_)
Join(names) ==
    IF names = <<>> THEN ""
    ELSE IF Len(names) = 1 THEN names[1]
    ELSE names[1] \o ", " \o Join(Tail(names))

\* Python: s.split() of a string whose whitespace is already collapsed
RECURSIVE Words(_)
Words(s) ==
    LET t == LStrip(s, Whitespace)
        n == IF \E i \in 1..Len(t) : CharAt(t, i) \in Whitespace
             THEN (CHOOSE i \in 1..Len(t) :
                      /\ CharAt(t, i) \in Whitespace
                      /\ \A j \in 1..(i - 1) : CharAt(t, j) \notin Whitespace) - 1
             ELSE Len(t)
    IN  IF t = "" THEN <<>>
        ELSE <<SubSeq(t, 1, n)>> \o Words(SubSeq(t, n + 1, Len(t)))

attempts(a, t) ==
    << "track:\"" \o t \o "\" artist:\"" \o a \o "\"",
       a \o " " \o t,
       fold_ascii(a) \o " " \o fold_ascii(t) >>

\* score(it)[0] for the call's artist and title
score(a0, t0, it) ==
    LET na == norm(a0)
        nt == norm(t0)
        a  == norm(Join(it.artists))
        t  == norm(it.name)
        words == Words(nt)
    IN  (IF t = nt \/ Contains(nt, t) \/ Contains(t, nt) THEN 2 ELSE 0)
      + (IF Contains(na, a) \/ Contains(a, na) THEN 2 ELSE 0)
      + (IF Len(words) >= 1 /\ Contains(words[1], t) THEN 1 ELSE 0)
      + (IF Len(words) >= 2 /\ Contains(words[2], t) THEN 1 ELSE 0)

\* Insertion of x into a sequence sorted by descending key, after every
\* element whose key is at least x's (a stable sort keeps equal keys in
\* their original order, also with reverse=True).
RECURSIVE InsertDesc(_, _)
InsertDesc(sorted, x) ==
    IF sorted = <<>> THEN <<x>>
    ELSE IF sorted[1][1] >= x[1] THEN <<sorted[1]>> \o InsertDesc(Tail(sorted), x)
    ELSE <<x>> \o sorted

RECURSIVE SortedDescFrom(_, _)
SortedDescFrom(acc, rest) ==
    IF rest = <<>> THEN acc
    ELSE SortedDescFrom(InsertDesc(acc, rest[1]), Tail(rest))

\* Mutant: a sort that is not stable: among equal scores the candidate
\* seen last comes first.
RECURSIVE InsertDescFirst(_, _)
InsertDescFirst(sorted, x) ==
    IF sorted = <<>> THEN <<x>>
    ELSE IF sorted[1][1] > x[1] THEN <<sorted[1]>> \o InsertDescFirst(Tail(sorted), x)
    ELSE <<x>> \o sorted

RECURSIVE SortedLastWinsFrom(_, _)
SortedLastWinsFrom(acc, rest) ==
    IF rest = <<>> THEN acc
    ELSE SortedLastWinsFrom(InsertDescFirst(acc, rest[1]), Tail(rest))

SortedLastWins(scored) == SortedLastWinsFrom(<<>>, scored)

\* sorted((score(i) for i in items), key=lambda x: x[0], reverse=True)
SortedDesc(scored) == SortedDescFrom(<<>>, scored)

TrackUrl(it) ==
    IF it.id # "" THEN "https://open.spotify.com/track/" \o it.id ELSE ""

\* Mutant: "confirmed" only above 4.
IndicatorStrict(best_s) ==
    IF best_s > 4 THEN CHECK ELSE IF best_s >= 2 THEN TILDE ELSE CROSS

Indicator(best_s) ==
    IF best_s >= 4 THEN CHECK ELSE IF best_s >= 2 THEN TILDE ELSE CROSS

\* Lines 183-205: the value returned once the query loop has ended.
Selected(a0, t0, its) ==
    LET scored == [i \in 1..Len(its) |-> <<score(a0, t0, its[i]), its[i]>>]
        first  == SortedDesc(scored)[1]
    IN  IF its = <<>> THEN <<CROSS, "">>
        ELSE <<Indicator(first[1]), TrackUrl(first[2])>>

(***************************************************************************)
(* parse_tracks                                                            *)
(*                                                                         *)
(* A document is the sequence of its elements in document order:           *)
(*   [kind |-> "table"]            a <table> opens; the <tr> that follow,  *)
(*                                 up to the next element that is no <tr>, *)
(*                                 are its rows                            *)
(*   [kind |-> "tr",  cls, cells]  a <tr> and its cells                    *)
(*   [kind |-> "div", cls, cells]  a <div> and its child elements          *)
(* A cell is [tag, cls, text]: its tag, its class attribute and its text.  *)
(***************************************************************************)
\* txt(el): get_text(" ", strip=True).strip() of an element holding one text
txt(el) == Strip(el.text, Whitespace)

\* The selectors of lines 135-136 and 141-143, by class.
ArtistClasses == {"playlist_artist", "artist"}
TitleClasses  == {"playlist_song", "song", "title", "track"}
RowClasses    == {"playlist_row", "songrow", "trackrow"}

RECURSIVE Filter(_, _)
Filter(xs, keep) ==
    IF xs = <<>> THEN <<>>
    ELSE (IF xs[1] \in keep THEN <<xs[1]>> ELSE <<>>) \o Filter(Tail(xs), keep)

\* The cells of a sequence of elements, in document order
RECURSIVE CellsOf(_)
CellsOf(els) ==
    IF els = <<>> THEN <<>> ELSE els[1].cells \o CellsOf(Tail(els))

WithTag(cells, tag) ==
    Filter(cells, {c \in {cells[i] : i \in 1..Len(cells)} : c.tag = tag})

WithClass(cells, classes) ==
    Filter(cells, {c \in {cells[i] : i \in 1..Len(cells)} : c.cls \in classes})

\* The rows of the table opened at position i of doc
RECURSIVE RowsFrom(_, _)
RowsFrom(doc, i) ==
    IF i <= Len(doc) /\ doc[i].kind = "tr"
    THEN <<doc[i]>> \o RowsFrom(doc, i + 1)
    ELSE <<>>

\* soup.select("table"): the row lists of the tables, in document order
RECURSIVE TablesFrom(_, _)
TablesFrom(doc, i) ==
    IF i > Len(doc) THEN <<>>
    ELSE (IF doc[i].kind = "table" THEN <<RowsFrom(doc, i + 1)>> ELSE <<>>)
         \o TablesFrom(doc, i + 1)

\* Every element of doc that carries cells (a table's opening carries none)
Elements(doc) ==
    Filter(doc, {e \in {doc[i] : i \in 1..Len(doc)} : e.kind # "table"})

None == 0

\* idx(*keys): the first header holding one of the keys (1-based; None if none)
idx(headers, keys) ==
    IF \E i \in 1..Len(headers) : \E key \in keys : Contains(key, headers[i])
    THEN CHOOSE i \in 1..Len(headers) :
            /\ \E key \in keys : Contains(key, headers[i])
            /\ \A j \in 1..(i - 1) : \A key \in keys : ~Contains(key, headers[j])
    ELSE None

LowerTexts(cells) == [i \in 1..Len(cells) |-> Lower(txt(cells[i]))]

\* Lines 105-108
Headers(rows) ==
    LET ths == LowerTexts(WithTag(CellsOf(rows), "th"))
    IN  IF ths = <<>> /\ rows # <<>>
        THEN LowerTexts(WithTag(rows[1].cells, "td"))
        ELSE ths

\* Lines 123-130, for the data rows of one table
RECURSIVE DataTracks(_, _, _)
DataTracks(rows, a_i, t_i) ==
    IF rows = <<>> THEN <<>>
    ELSE LET tds == WithTag(rows[1].cells, "td")
             a   == IF a_i # None /\ a_i <= Len(tds) THEN txt(tds[a_i]) ELSE ""
             t   == IF t_i # None /\ t_i <= Len(tds) THEN txt(tds[t_i]) ELSE ""
         IN  (IF tds # <<>> /\ (a # "" \/ t # "")
              THEN << [artist |-> a, title |-> t] >> ELSE <<>>)
             \o DataTracks(Tail(rows), a_i, t_i)

\* Lines 105-130, for one table
TableTracks(rows) ==
    LET headers == Headers(rows)
    IN  IF headers = <<>> THEN <<>>
        ELSE DataTracks(Tail(rows),
                        idx(headers, {"artist", "performer"}),
                        idx(headers, {"title", "song", "track"}))

\* Lines 104-130: (1) header-mapped tables
RECURSIVE AllTableTracks(_)
AllTableTracks(tables) ==
    IF tables = <<>> THEN <<>>
    ELSE TableTracks(tables[1]) \o AllTableTracks(Tail(tables))

HeaderMapped(doc) == AllTableTracks(TablesFrom(doc, 1))

\* Lines 135-136
ArtistCells(doc) == WithClass(CellsOf(Elements(doc)), ArtistClasses)
TitleCells(doc)  == WithClass(CellsOf(Elements(doc)), TitleClasses)

\* Line 137
ClassApplies(doc) ==
    /\ ArtistCells(doc) # <<>>
    /\ TitleCells(doc) # <<>>
    /\ Len(ArtistCells(doc)) = Len(TitleCells(doc))

\* Line 138: (2) class-annotated cells, zipped
ClassZipped(doc) ==
    [i \in 1..Len(ArtistCells(doc)) |->
        [artist |-> txt(ArtistCells(doc)[i]), title |-> txt(TitleCells(doc)[i])]]

\* Lines 141-145: (3) row grouping
RECURSIVE RowTracks(_)
RowTracks(els) ==
    IF els = <<>> THEN <<>>
    ELSE LET a_els == WithClass(els[1].cells, ArtistClasses)
             s_els == WithClass(els[1].cells, TitleClasses)
             isRow == els[1].kind = "tr" \/ els[1].cls \in RowClasses
         IN  (IF isRow /\ (a_els # <<>> \/ s_els # <<>>)
              THEN << [artist |-> IF a_els # <<>> THEN txt(a_els[1]) ELSE "",
                       title  |-> IF s_els # <<>> THEN txt(s_els[1]) ELSE ""] >>
              ELSE <<>>)
             \o RowTracks(Tail(els))

RowGrouped(doc) == RowTracks(Elements(doc))

(***************************************************************************)
(* State                                                                   *)
(***************************************************************************)
fnVars    == <<input, output>>
matchVars == <<mpc, artist, title, k, items, calls, ret, searches>>
parseVars == <<html, parse_pc, tracks, returned_by>>
runVars   == <<run_pc, row_i, sm_items, result, match_args>>
cliVars   == <<cli_pc, user_in, print_i, stdout, exit_code>>
appVars   == <<h_pc, data, pipe, events>>

vars == <<fnVars, sp, matchVars, parseVars, runVars, cliVars, appVars>>

FnIdle == input = NoValue /\ output = NoValue

MatchIdle ==
    /\ mpc = "idle"
    /\ artist = "" /\ title = ""
    /\ k = 0
    /\ items = <<>>
    /\ calls = <<>>
    /\ ret = NoValue
    /\ searches = 0

ParseIdle ==
    /\ html = NoValue
    /\ parse_pc = "idle"
    /\ tracks = <<>>
    /\ returned_by = 0

RunIdle ==
    /\ run_pc = "idle"
    /\ row_i = 0
    /\ sm_items = <<>>
    /\ result = [error |-> "", items |-> <<>>]
    /\ match_args = <<>>

CliIdle ==
    /\ cli_pc = "idle"
    /\ user_in = ""
    /\ print_i = 0
    /\ stdout = <<>>
    /\ exit_code = NoValue

AppIdle ==
    /\ h_pc = "none"
    /\ data = NoValue
    /\ pipe = <<>>
    /\ events = <<>>

(***************************************************************************)
(* parse_tracks as steps: one per strategy.                                *)
(***************************************************************************)
\* Mutant: the class-annotated cells are read before the tables.
ParseTablesSecond ==
    /\ parse_pc = "tables"
    /\ IF ClassApplies(html)
       THEN /\ tracks' = ClassZipped(html)
            /\ returned_by' = 2
            /\ parse_pc' = "ret"
       ELSE /\ tracks' = HeaderMapped(html)
            /\ returned_by' = IF HeaderMapped(html) # <<>> THEN 1 ELSE 0
            /\ parse_pc' = IF HeaderMapped(html) # <<>> THEN "ret" ELSE "rows"
    /\ UNCHANGED <<html, fnVars, sp, matchVars, runVars, cliVars, appVars>>

\* Lines 101-132: (1) header-mapped tables; return tracks if any
ParseTables ==
    /\ parse_pc = "tables"
    /\ tracks' = HeaderMapped(html)
    /\ returned_by' = IF tracks' # <<>> THEN 1 ELSE 0
    /\ parse_pc' = IF tracks' # <<>> THEN "ret" ELSE "classes"
    /\ UNCHANGED <<html, fnVars, sp, matchVars, runVars, cliVars, appVars>>

\* Lines 135-138: (2) class-annotated cells; return the zipped pairs if the
\* two selections are non-empty and of equal length
ParseClasses ==
    /\ parse_pc = "classes"
    /\ IF ClassApplies(html)
       THEN /\ tracks' = ClassZipped(html)
            /\ returned_by' = 2
            /\ parse_pc' = "ret"
       ELSE /\ parse_pc' = "rows"
            /\ UNCHANGED <<tracks, returned_by>>
    /\ UNCHANGED <<html, fnVars, sp, matchVars, runVars, cliVars, appVars>>

\* Lines 141-147: (3) row grouping, appended to tracks; return tracks
ParseRows ==
    /\ parse_pc = "rows"
    /\ tracks' = tracks \o RowGrouped(html)
    /\ returned_by' = 3
    /\ parse_pc' = "ret"
    /\ UNCHANGED <<html, fnVars, sp, matchVars, runVars, cliVars, appVars>>

(***************************************************************************)
(* best_spotify_match as steps: one per blocking sp.search call.           *)
(***************************************************************************)
MaxCands == 2

\* What the catalog may return as one track item.  A key the item lacks
\* reads as the default the code passes to get(): no artists, "", "".
CandPool ==
    { [artists |-> <<"Nu">>,      name |-> "A c", id |-> "1"],
      [artists |-> <<"Nu">>,      name |-> "A c", id |-> "2"],
      [artists |-> <<"z">>,       name |-> "a",   id |-> "3"],
      [artists |-> <<"nu", "q">>, name |-> "c a", id |-> "4"],
      [artists |-> <<"q">>,       name |-> "w",   id |-> "5"],
      [artists |-> <<"q">>,       name |-> "xa",  id |-> ""],
      [artists |-> <<>>,          name |-> "",    id |-> "6"] }

RECURSIVE SeqsUpTo(_, _)
SeqsUpTo(S, n) ==
    IF n = 0 THEN {<<>>}
    ELSE LET shorter == SeqsUpTo(S, n - 1)
         IN  shorter \cup {<<x>> \o q : x \in S, q \in {y \in shorter : Len(y) = n - 1}}

\* The non-empty values of res["tracks"]["items"] the catalog may answer:
\* every list of at most MaxCands candidates for a call of its own, two
\* chosen lists for a call made by scrape_and_match.
Responses ==
    IF run_pc = "idle"
    THEN SeqsUpTo(CandPool, MaxCands) \ {<<>>}
    ELSE { << [artists |-> <<"Nu">>, name |-> "A c", id |-> "1"] >>,
           << [artists |-> <<"z">>,  name |-> "a",   id |-> "3"],
              [artists |-> <<"q">>,  name |-> "xa",  id |-> ""] >> }

NumAttempts == Len(attempts("", ""))

\* Mutant: without a client the call reports "no match".
MatchNoClientCross ==
    /\ mpc = "call"
    /\ ~sp
    /\ ret' = <<CROSS, "">>
    /\ mpc' = "ret"
    /\ UNCHANGED <<artist, title, k, items, calls, searches>>
    /\ UNCHANGED <<fnVars, sp, parseVars, runVars, cliVars, appVars>>

\* Lines 164-165: no client, nothing is searched.
MatchNoClient ==
    /\ mpc = "call"
    /\ ~sp
    /\ ret' = <<NOIND, "">>
    /\ mpc' = "ret"
    /\ UNCHANGED <<artist, title, k, items, calls, searches>>
    /\ UNCHANGED <<fnVars, sp, parseVars, runVars, cliVars, appVars>>

\* Lines 167-174: the attempts are built, the loop is entered.
MatchBegin ==
    /\ mpc = "call"
    /\ sp
    /\ k' = 1
    /\ items' = <<>>
    /\ mpc' = "attempt"
    /\ UNCHANGED <<artist, title, calls, ret, searches>>
    /\ UNCHANGED <<fnVars, sp, parseVars, runVars, cliVars, appVars>>

\* Where the loop stands after attempt k ended without break.
AfterAttempt == IF k < NumAttempts THEN "attempt" ELSE "select"

\* Lines 176-179: the search returns at least one item: break.
SearchHit ==
    /\ mpc = "attempt"
    /\ \E r \in Responses : items' = r
    /\ calls' = Append(calls, <<attempts(artist, title)[k], "hit">>)
    /\ searches' = searches + 1
    /\ mpc' = "select"
    /\ UNCHANGED <<artist, title, k, ret>>
    /\ UNCHANGED <<fnVars, sp, parseVars, runVars, cliVars, appVars>>

\* Lines 176-178: the search returns no item: next attempt.
SearchEmpty ==
    /\ mpc = "attempt"
    /\ items' = <<>>
    /\ calls' = Append(calls, <<attempts(artist, title)[k], "empty">>)
    /\ searches' = searches + 1
    /\ k' = k + 1
    /\ mpc' = AfterAttempt
    /\ UNCHANGED <<artist, title, ret>>
    /\ UNCHANGED <<fnVars, sp, parseVars, runVars, cliVars, appVars>>

\* Mutant: a search that raises ends the loop (break instead of continue).
SearchFailBreaks ==
    /\ mpc = "attempt"
    /\ calls' = Append(calls, <<attempts(artist, title)[k], "fail">>)
    /\ searches' = searches + 1
    /\ k' = k + 1
    /\ mpc' = "select"
    /\ UNCHANGED <<artist, title, items, ret>>
    /\ UNCHANGED <<fnVars, sp, parseVars, runVars, cliVars, appVars>>

\* Lines 180-181: the search raises: items keeps its value, next attempt.
SearchFail ==
    /\ mpc = "attempt"
    /\ calls' = Append(calls, <<attempts(artist, title)[k], "fail">>)
    /\ searches' = searches + 1
    /\ k' = k + 1
    /\ mpc' = AfterAttempt
    /\ UNCHANGED <<artist, title, items, ret>>
    /\ UNCHANGED <<fnVars, sp, parseVars, runVars, cliVars, appVars>>

\* Lines 183-205
MatchSelect ==
    /\ mpc = "select"
    /\ ret' = Selected(artist, title, items)
    /\ mpc' = "ret"
    /\ UNCHANGED <<artist, title, k, items, calls, searches>>
    /\ UNCHANGED <<fnVars, sp, parseVars, runVars, cliVars, appVars>>

(***************************************************************************)
(* Specification SpecClean: clean_title applied to every title over        *)
(* TitleChars of length at most MaxTitleLen.                               *)
(***************************************************************************)
MaxTitleLen == 4

TitleChars == {"a", " ", "(", ")", DQ, LDQ, RDQ, "'", ARROW, "-", NL}

RECURSIVE StringsUpTo(_, _)
StringsUpTo(cs, n) ==
    IF n = 0 THEN {""}
    ELSE LET shorter == StringsUpTo(cs, n - 1)
         IN  shorter \cup {c \o s : c \in cs, s \in {x \in shorter : Len(x) = n - 1}}

InitClean ==
    /\ input \in StringsUpTo(TitleChars, MaxTitleLen)
    /\ output = NoValue
    /\ sp = FALSE
    /\ MatchIdle /\ ParseIdle /\ RunIdle /\ CliIdle /\ AppIdle

ApplyCleanTitle ==
    /\ input # NoValue
    /\ output = NoValue
    /\ output' = clean_title(input)
    /\ UNCHANGED <<input, sp, matchVars, parseVars, runVars, cliVars, appVars>>

NextClean == ApplyCleanTitle

SpecClean == InitClean /\ [][NextClean]_vars

(***************************************************************************)
(* Specification SpecParse: parse_tracks applied to every document of at   *)
(* most MaxElements elements drawn from ElementPool.                       *)
(***************************************************************************)
MaxElements == 4

Cell(tag, cls, text) == [tag |-> tag, cls |-> cls, text |-> text]
Tr(cells)       == [kind |-> "tr",  cls |-> "", cells |-> cells]
Div(cls, cells) == [kind |-> "div", cls |-> cls, cells |-> cells]
Table           == [kind |-> "table"]

ElementPool ==
    { Table,
      \* a header row
      Tr(<<Cell("th", "", "Artist"), Cell("th", "", "Song")>>),
      \* a first row whose TDs are the headers, title column first
      Tr(<<Cell("td", "", "Title"), Cell("td", "", " Performer")>>),
      \* a data row with class-annotated cells, title cell first
      Tr(<<Cell("td", "song", "y"), Cell("td", "artist", "x")>>),
      \* a data row with an artist cell only
      Tr(<<Cell("td", "playlist_artist", "z")>>),
      \* a data row with empty cells
      Tr(<<Cell("td", "", ""), Cell("td", "", " ")>>),
      \* rows that are no table rows
      Div("playlist_row", <<Cell("span", "artist", "v"), Cell("span", "title", "w")>>),
      Div("songrow", <<Cell("span", "track", "u")>>) }

InitParse ==
    /\ FnIdle
    /\ sp = FALSE
    /\ html \in SeqsUpTo(ElementPool, MaxElements)
    /\ parse_pc = "tables"
    /\ tracks = <<>>
    /\ returned_by = 0
    /\ MatchIdle /\ RunIdle /\ CliIdle /\ AppIdle

NextParse ==
    \/ ParseTables
    \/ ParseClasses
    \/ ParseRows

SpecParse == InitParse /\ [][NextParse]_vars

(***************************************************************************)
(* Specification SpecMatch: one call of best_spotify_match, for every      *)
(* artist and title of the pools, with and without a client.               *)
(***************************************************************************)
MatchArtists == {"N@", "b"}
MatchTitles  == {"A c!", "("}

InitMatch ==
    /\ FnIdle
    /\ sp \in BOOLEAN
    /\ mpc = "call"
    /\ artist \in MatchArtists
    /\ title \in MatchTitles
    /\ k = 0
    /\ items = <<>>
    /\ calls = <<>>
    /\ ret = NoValue
    /\ searches = 0
    /\ ParseIdle /\ RunIdle /\ CliIdle /\ AppIdle

NextMatch ==
    \/ MatchNoClient
    \/ MatchBegin
    \/ SearchHit
    \/ SearchEmpty
    \/ SearchFail
    \/ MatchSelect

SpecMatch == InitMatch /\ [][NextMatch]_vars

(***************************************************************************)
(* scrape_and_match as steps: the fetch, the parse, one loop iteration per *)
(* row (split at the call of best_spotify_match), the return.              *)
(***************************************************************************)
NoTracksError == "No tracks found " \o EMDASH \o " page structure may have changed."
FetchError(e) == "Error fetching URL: " \o e

\* What fetch_html_bytes may raise
FetchExceptions == {"timeout"}

MaxRows == 2

\* The data rows a fetched page may hold, under an Artist/Song header
PageRowPool ==
    { Tr(<<Cell("td", "", "N@"), Cell("td", "", "a c (live)")>>),
      Tr(<<Cell("td", "", "b"), Cell("td", "", LDQ \o "d!" \o RDQ)>>),
      Tr(<<Cell("td", "", "Music behind DJ:"), Cell("td", "", "ambient bed")>>),
      Tr(<<Cell("td", "", ""), Cell("td", "", "a c")>>),
      Tr(<<Cell("td", "", "b"), Cell("td", "", "(x)")>>) }

\* The documents fetch_html_bytes may return
Pages ==
    { <<Table, Tr(<<Cell("th", "", "Artist"), Cell("th", "", "Song")>>)>> \o rs :
        rs \in SeqsUpTo(PageRowPool, MaxRows) }

NoResult == [error |-> "", items |-> <<>>]

\* Mutant: the fetch failure is recorded but the function does not return:
\* it goes on to parse the bytes it has, none.
FetchFailsGoesOn ==
    /\ run_pc = "fetch"
    /\ \E e \in FetchExceptions :
          result' = [error |-> FetchError(e), items |-> <<>>]
    /\ html' = <<>>
    /\ parse_pc' = "tables"
    /\ run_pc' = "parse"
    /\ UNCHANGED <<tracks, returned_by>>
    /\ UNCHANGED <<row_i, sm_items, match_args>>
    /\ UNCHANGED <<fnVars, sp, matchVars, cliVars, appVars>>

\* Lines 212-213
FetchFails ==
    /\ run_pc = "fetch"
    /\ \E e \in FetchExceptions :
          result' = [error |-> FetchError(e), items |-> <<>>]
    /\ run_pc' = "ret"
    /\ UNCHANGED <<row_i, sm_items, match_args>>
    /\ UNCHANGED <<fnVars, sp, matchVars, parseVars, cliVars, appVars>>

\* Lines 211, 215: the page is fetched; parse_tracks is called
FetchOk ==
    /\ run_pc = "fetch"
    /\ html' \in Pages
    /\ parse_pc' = "tables"
    /\ run_pc' = "parse"
    /\ UNCHANGED <<tracks, returned_by>>
    /\ UNCHANGED <<row_i, sm_items, result, match_args>>
    /\ UNCHANGED <<fnVars, sp, matchVars, cliVars, appVars>>

\* Lines 215-219: parse_tracks has returned rows
Parsed ==
    /\ run_pc = "parse"
    /\ parse_pc = "ret"
    /\ IF tracks = <<>>
       THEN /\ result' = [error |-> NoTracksError, items |-> <<>>]
            /\ run_pc' = "ret"
            /\ UNCHANGED <<row_i, sm_items>>
       ELSE /\ sm_items' = <<>>
            /\ row_i' = 1
            /\ run_pc' = "loop"
            /\ UNCHANGED result
    /\ UNCHANGED match_args
    /\ UNCHANGED <<fnVars, sp, matchVars, parseVars, cliVars, appVars>>

\* Lines 221-222 for the row the loop stands at
RowArtist == Strip(tracks[row_i].artist, Whitespace)
RowTitle  == clean_title(Strip(tracks[row_i].title, Whitespace))

\* Mutant: a row is dropped only when should_skip rejects it.
RowDroppedOnSkipOnly == should_skip(RowArtist, RowTitle)

\* Lines 223-226
RowDropped ==
    \/ should_skip(RowArtist, RowTitle)
    \/ ~(RowArtist # "" /\ RowTitle # "")

\* Lines 220-226: a row is dropped
RowSkip ==
    /\ run_pc = "loop"
    /\ row_i <= Len(tracks)
    /\ RowDropped
    /\ row_i' = row_i + 1
    /\ UNCHANGED <<run_pc, sm_items, result, match_args>>
    /\ UNCHANGED <<fnVars, sp, matchVars, parseVars, cliVars, appVars>>

\* Lines 220-227: a row is kept; best_spotify_match is called
RowCall ==
    /\ run_pc = "loop"
    /\ row_i <= Len(tracks)
    /\ ~RowDropped
    /\ artist' = RowArtist
    /\ title' = RowTitle
    /\ mpc' = "call"
    /\ calls' = <<>>
    /\ match_args' = Append(match_args, <<RowArtist, RowTitle>>)
    /\ run_pc' = "match"
    /\ UNCHANGED <<k, items, ret, searches>>
    /\ UNCHANGED <<row_i, sm_items, result>>
    /\ UNCHANGED <<fnVars, sp, parseVars, cliVars, appVars>>

\* Lines 227-228: best_spotify_match has returned (its locals are gone)
RowMatched ==
    /\ run_pc = "match"
    /\ mpc = "ret"
    /\ sm_items' = Append(sm_items, [artist |-> RowArtist, title |-> RowTitle,
                                     indicator |-> ret[1], spotify_url |-> ret[2]])
    /\ row_i' = row_i + 1
    /\ run_pc' = "loop"
    /\ mpc' = "idle"
    /\ artist' = "" /\ title' = ""
    /\ k' = 0
    /\ items' = <<>>
    /\ calls' = <<>>
    /\ ret' = NoValue
    /\ UNCHANGED searches
    /\ UNCHANGED <<result, match_args>>
    /\ UNCHANGED <<fnVars, sp, parseVars, cliVars, appVars>>

\* Mutant: an empty survivor list is returned as an error.
RunReturnFilterError ==
    /\ run_pc = "loop"
    /\ row_i > Len(tracks)
    /\ result' = [error |-> IF sm_items = <<>> THEN "No valid tracks after filtering."
                            ELSE "",
                  items |-> sm_items]
    /\ run_pc' = "ret"
    /\ UNCHANGED <<row_i, sm_items, match_args>>
    /\ UNCHANGED <<fnVars, sp, matchVars, parseVars, cliVars, appVars>>

\* Line 230
RunReturn ==
    /\ run_pc = "loop"
    /\ row_i > Len(tracks)
    /\ result' = [error |-> "", items |-> sm_items]
    /\ run_pc' = "ret"
    /\ UNCHANGED <<row_i, sm_items, match_args>>
    /\ UNCHANGED <<fnVars, sp, matchVars, parseVars, cliVars, appVars>>

(***************************************************************************)
(* capture.py __main__                                                     *)
(***************************************************************************)
WARN == "[!]"       \* U+26A0 U+FE0F, the warning sign

Digits == "0123456789"

\* Python: s.isdigit()
IsDigit(s) == s # "" /\ Chars(s) \subseteq Chars(Digits)

\* f"{n}" for n < 100
Decimal(n) ==
    IF n < 10 THEN CharAt(Digits, n + 1)
    ELSE CharAt(Digits, (n \div 10) + 1) \o CharAt(Digits, (n % 10) + 1)

\* f"{i:02d}" for i < 100
TwoDigits(i) == CharAt(Digits, (i \div 10) + 1) \o CharAt(Digits, (i % 10) + 1)

IsHttpUrl(s) == StartsWith(s, "http://") \/ StartsWith(s, "https://")

\* Lines 235-236
Expanded(s) == IF IsDigit(s) THEN "https://wfmu.org/playlists/shows/" \o s ELSE s

\* Lines 253-257
Line(i, it) ==
    TwoDigits(i) \o ". " \o it.artist \o " " \o EMDASH \o " " \o it.title
    \o (IF it.indicator # "" THEN "  " \o it.indicator ELSE "")
    \o (IF it.spotify_url # "" THEN " " \o it.spotify_url ELSE "")

\* print(): the line goes to the process's standard output, which is the
\* handler's pipe when the process was spawned by start_wfmu.
Printed(line) ==
    /\ stdout' = Append(stdout, line)
    /\ pipe' = IF h_pc = "none" THEN pipe ELSE Append(pipe, line)

\* Lines 234-241: the input is read; scrape_and_match is called or the
\* process exits with status 1
CliStart ==
    /\ cli_pc = "start"
    /\ user_in' = Expanded(user_in)
    /\ IF IsHttpUrl(user_in')
       THEN /\ run_pc' = "fetch"
            /\ cli_pc' = "run"
            /\ UNCHANGED <<stdout, pipe, exit_code>>
       ELSE /\ Printed(CROSS \o " Please enter a valid WFMU URL or numeric show ID.")
            /\ exit_code' = 1
            /\ cli_pc' = "exit"
            /\ UNCHANGED run_pc
    /\ UNCHANGED <<print_i, row_i, sm_items, result, match_args, h_pc, data, events>>
    /\ UNCHANGED <<fnVars, sp, matchVars, parseVars>>

\* Lines 241-251: scrape_and_match has returned
CliReport ==
    /\ cli_pc = "run"
    /\ run_pc = "ret"
    /\ IF result.error # ""
       THEN /\ Printed(CROSS \o " " \o result.error)
            /\ exit_code' = 1
            /\ cli_pc' = "exit"
            /\ UNCHANGED print_i
       ELSE IF result.items = <<>>
       THEN /\ Printed(WARN \o " No valid tracks after filtering.")
            /\ exit_code' = 0
            /\ cli_pc' = "exit"
            /\ UNCHANGED print_i
       ELSE /\ Printed(CHECK \o " Found " \o Decimal(Len(result.items)) \o " tracks:")
            /\ print_i' = 1
            /\ cli_pc' = "print"
            /\ UNCHANGED exit_code
    /\ UNCHANGED <<user_in, h_pc, data, events>>
    /\ UNCHANGED <<fnVars, sp, matchVars, parseVars, runVars>>

\* Lines 252-259: one line per item; after the last one the script ends
CliPrint ==
    /\ cli_pc = "print"
    /\ Printed(Line(print_i, result.items[print_i]))
    /\ IF print_i < Len(result.items)
       THEN /\ print_i' = print_i + 1
            /\ UNCHANGED <<cli_pc, exit_code>>
       ELSE /\ exit_code' = 0
            /\ cli_pc' = "exit"
            /\ UNCHANGED print_i
    /\ UNCHANGED <<user_in, h_pc, data, events>>
    /\ UNCHANGED <<fnVars, sp, matchVars, parseVars, runVars>>

(***************************************************************************)
(* app.py start_wfmu                                                       *)
(***************************************************************************)
Event(name, arg) == [name |-> name, arg |-> arg]

\* Line 17: (data or {}).get("url", "").strip()
Url(d) == IF d.kind = "dict" THEN Strip(d.url, Whitespace) ELSE ""

\* Lines 17-20: the input is no http(s) URL
HandlerReject ==
    /\ h_pc = "recv"
    /\ ~IsHttpUrl(Url(data))
    /\ events' = Append(events, Event("error", "Please enter a valid WFMU URL."))
    /\ h_pc' = "done"
    /\ UNCHANGED <<data, pipe>>
    /\ UNCHANGED <<fnVars, sp, matchVars, parseVars, runVars, cliVars>>

\* Lines 22-31: capture.py is spawned with the URL as its argument
HandlerSpawn ==
    /\ h_pc = "recv"
    /\ IsHttpUrl(Url(data))
    /\ user_in' = Url(data)
    /\ cli_pc' = "start"
    /\ h_pc' = "stream"
    /\ UNCHANGED <<data, pipe, events>>
    /\ UNCHANGED <<print_i, stdout, exit_code>>
    /\ UNCHANGED <<fnVars, sp, matchVars, parseVars, runVars>>

\* Lines 22-31, 45-46: Popen raises; nothing was spawned
HandlerSpawnFails ==
    /\ h_pc = "recv"
    /\ IsHttpUrl(Url(data))
    /\ events' = Append(events, Event("error", "Exception: OSError"))
    /\ h_pc' = "done"
    /\ UNCHANGED <<data, pipe>>
    /\ UNCHANGED <<fnVars, sp, matchVars, parseVars, runVars, cliVars>>

\* Lines 34-35: a line is read from the pipe and emitted
HandlerTrack ==
    /\ h_pc = "stream"
    /\ pipe # <<>>
    /\ events' = Append(events, Event("track", RStrip(Head(pipe), Whitespace)))
    /\ pipe' = Tail(pipe)
    /\ UNCHANGED <<h_pc, data>>
    /\ UNCHANGED <<fnVars, sp, matchVars, parseVars, runVars, cliVars>>

\* Mutant: "done" is emitted whatever the exit status.
HandlerFinishAlwaysDone ==
    /\ h_pc = "stream"
    /\ pipe = <<>>
    /\ cli_pc = "exit"
    /\ events' = Append(events, Event("done", ""))
    /\ h_pc' = "done"
    /\ UNCHANGED <<data, pipe>>
    /\ UNCHANGED <<fnVars, sp, matchVars, parseVars, runVars, cliVars>>

\* Lines 34, 37-43: end of file on the pipe: the process has exited and all
\* its lines were read; "done" or "error" by its exit status (the process
\* writes nothing to its standard error, so the message is the default)
HandlerFinish ==
    /\ h_pc = "stream"
    /\ pipe = <<>>
    /\ cli_pc = "exit"
    /\ events' = Append(events, IF exit_code = 0
                                THEN Event("done", "")
                                ELSE Event("error", "Unknown error"))
    /\ h_pc' = "done"
    /\ UNCHANGED <<data, pipe>>
    /\ UNCHANGED <<fnVars, sp, matchVars, parseVars, runVars, cliVars>>

(***************************************************************************)
(* Specification Spec: one start_wfmu event, or one run of capture.py from *)
(* the command line, to its end.                                           *)
(***************************************************************************)
\* Payloads of a start_wfmu event: none, a dict without "url", a dict with it
Payloads ==
    { [kind |-> "None", url |-> ""],
      [kind |-> "dict", url |-> ""],
      [kind |-> "dict", url |-> " https://h\n"],
      [kind |-> "dict", url |-> "ftp://h"],
      [kind |-> "dict", url |-> "15"] }

\* sys.argv[1].strip() of a run from the command line
Arguments == {"15", "http://h", "wfmu.org", ""}

InitSocket ==
    /\ h_pc = "recv"
    /\ data \in Payloads
    /\ pipe = <<>>
    /\ events = <<>>
    /\ CliIdle

InitCommandLine ==
    /\ AppIdle
    /\ cli_pc = "start"
    /\ user_in \in Arguments
    /\ print_i = 0
    /\ stdout = <<>>
    /\ exit_code = NoValue

Init ==
    /\ FnIdle
    /\ sp \in BOOLEAN
    /\ MatchIdle /\ ParseIdle
    /\ run_pc = "idle"
    /\ row_i = 0
    /\ sm_items = <<>>
    /\ result = NoResult
    /\ match_args = <<>>
    /\ (InitSocket \/ InitCommandLine)

Next ==
    \/ HandlerReject
    \/ HandlerSpawn
    \/ HandlerSpawnFails
    \/ HandlerTrack
    \/ HandlerFinish
    \/ CliStart
    \/ CliReport
    \/ CliPrint
    \/ FetchFails
    \/ FetchOk
    \/ ParseTables
    \/ ParseClasses
    \/ ParseRows
    \/ Parsed
    \/ RowSkip
    \/ RowCall
    \/ RowMatched
    \/ RunReturn
    \/ MatchNoClient
    \/ MatchBegin
    \/ SearchHit
    \/ SearchEmpty
    \/ SearchFail
    \/ MatchSelect

Spec == Init /\ [][Next]_vars

(***************************************************************************)
(* Properties                                                              *)
(***************************************************************************)
ParenChars == {"(", ")"}

\* The parentheses of s are balanced and not nested, and no pair holds a
\* line break.
RECURSIVE FlatFrom(_, _, _)
FlatFrom(s, i, open) ==
    IF i > Len(s) THEN ~open
    ELSE LET c == CharAt(s, i)
         IN  IF c = "(" THEN ~open /\ FlatFrom(s, i + 1, TRUE)
             ELSE IF c = ")" THEN open /\ FlatFrom(s, i + 1, FALSE)
             ELSE IF c = NL THEN ~open /\ FlatFrom(s, i + 1, FALSE)
             ELSE FlatFrom(s, i + 1, open)

FlatParens(s) == FlatFrom(s, 1, FALSE)

\* C8, as stated: for every title, the output of clean_title holds no
\* parenthesis and no quotation mark, unbalanced and nested parentheses
\* included.
C8_NoParenNoQuote ==
    output # NoValue => Chars(output) \cap (ParenChars \cup QuoteChars) = {}

\* C8, amended: for every title, the output of clean_title holds no straight
\* or curly double quotation mark; it holds no parenthesis when, in the part
\* of the title before the first arrow, the parentheses are balanced, not
\* nested, and no pair spans a line break.
C8_NoQuoteNoFlatParen ==
    output # NoValue =>
        /\ Chars(output) \cap QuoteChars = {}
        /\ FlatParens(CutArrow(input)) => Chars(output) \cap ParenChars = {}

\* A title with a quotation mark and a parenthesized block, cleaned to "a".
C8_Witness ==
    /\ output = "a"
    /\ Contains(DQ, input)
    /\ Contains("(", input)
    /\ FlatParens(CutArrow(input))

\* What the class-annotated strategy yields for doc: the zipped pairs when
\* both selections are non-empty and of equal length, else nothing.
ClassYield(doc) == IF ClassApplies(doc) THEN ClassZipped(doc) ELSE <<>>

\* C7: parse_tracks returns the rows of the first of header-mapped tables,
\* class-annotated cells, row grouping that yields a row (nothing if none
\* does): the header-mapped rows whenever there are any; the class-annotated
\* pairs only when the tables yielded nothing and the two selections have
\* equal length; the row grouping only when neither earlier strategy
\* produced a result.
C7_FirstStrategyWins ==
    parse_pc = "ret" =>
        /\ HeaderMapped(html) # <<>> =>
              tracks = HeaderMapped(html) /\ returned_by = 1
        /\ HeaderMapped(html) = <<>> /\ ClassYield(html) # <<>> =>
              tracks = ClassYield(html) /\ returned_by = 2
        /\ HeaderMapped(html) = <<>> /\ ClassYield(html) = <<>> =>
              tracks = RowGrouped(html) /\ returned_by = 3
        /\ returned_by = 2 =>
              /\ HeaderMapped(html) = <<>>
              /\ Len(ArtistCells(html)) = Len(TitleCells(html))
        /\ returned_by = 3 =>
              HeaderMapped(html) = <<>> /\ ~ClassApplies(html)

\* A document with both shapes and different content: the table's rows win.
C7_Witness ==
    /\ parse_pc = "ret"
    /\ returned_by = 1
    /\ ClassApplies(html)
    /\ ClassZipped(html) # tracks
    /\ RowGrouped(html) # <<>>

\* C3: with a client, the queries go out in the order exact-field, plain
\* concatenation, ASCII-folded concatenation; a query is issued only after
\* every earlier one returned nothing or failed, none after one that
\* returned a candidate, three at most; a failing query does not end the
\* call, which returns only after a query found candidates or all three
\* were tried; if none found any the result is "no match" with empty URL.
C3_QueriesInOrder ==
    LET n == Len(calls)
    IN  /\ n <= 3
        /\ n >= 1 => calls[1][1] = "track:\"" \o title \o "\" artist:\"" \o artist \o "\""
        /\ n >= 2 => calls[2][1] = artist \o " " \o title
        /\ n >= 3 => calls[3][1] = fold_ascii(artist) \o " " \o fold_ascii(title)
        /\ \A i \in 1..(n - 1) : calls[i][2] \in {"empty", "fail"}
        /\ mpc \in {"select", "ret"} /\ sp => n >= 1 /\ (calls[n][2] = "hit" \/ n = 3)
        /\ (mpc = "ret" /\ sp /\ \A i \in 1..n : calls[i][2] # "hit") =>
              ret = <<CROSS, "">>

\* The first query failed, the second returned nothing, the third found.
C3_Witness ==
    /\ mpc = "ret"
    /\ Len(calls) = 3
    /\ calls[1][2] = "fail" /\ calls[2][2] = "empty" /\ calls[3][2] = "hit"
    /\ ret[1] = CHECK

\* C4: without a client, every call of best_spotify_match returns no
\* indicator and an empty URL and makes no catalog search, so every item of
\* every result has no indicator and an empty URL.
C4_NoClientNoSearch ==
    ~sp =>
        /\ searches = 0
        /\ calls = <<>>
        /\ mpc = "ret" => ret = <<"", "">>
        /\ \A i \in 1..Len(sm_items) :
              sm_items[i].indicator = "" /\ sm_items[i].spotify_url = ""
        /\ \A i \in 1..Len(result.items) :
              result.items[i].indicator = "" /\ result.items[i].spotify_url = ""

\* A run without a client that returned two items.
C4_Witness ==
    /\ ~sp
    /\ run_pc = "ret"
    /\ Len(result.items) = 2
    /\ Len(match_args) = 2

Scores(a0, t0, its) == {score(a0, t0, its[i]) : i \in 1..Len(its)}

MaxScore(a0, t0, its) ==
    CHOOSE m \in Scores(a0, t0, its) : \A x \in Scores(a0, t0, its) : x <= m

\* C5: the indicator follows the best score among the candidates: 4 or more
\* gives "confirmed", 2 or 3 "uncertain", less than 2 "no match", each with
\* the URL of a best-scoring candidate; a URL is returned only if a
\* candidate existed; no candidate after all queries gives "no match" with
\* an empty URL.
C5_IndicatorByScore ==
    (mpc = "ret" /\ sp) =>
        /\ items = <<>> => ret = <<CROSS, "">>
        /\ ret[2] # "" => items # <<>>
        /\ items # <<>> =>
              LET m == MaxScore(artist, title, items)
              IN  /\ m >= 4 => ret[1] = CHECK
                  /\ m \in {2, 3} => ret[1] = TILDE
                  /\ m < 2 => ret[1] = CROSS
                  /\ \E i \in 1..Len(items) :
                        /\ score(artist, title, items[i]) = m
                        /\ ret[2] = TrackUrl(items[i])

\* A best score of exactly 4 is "confirmed".
C5_Witness ==
    /\ mpc = "ret" /\ sp
    /\ items # <<>>
    /\ MaxScore(artist, title, items) = 4
    /\ ret[1] = CHECK
    /\ ret[2] # ""

\* C6: the selected candidate has the maximal score and is the first of the
\* catalog's order that has it; the URL is built from its id.
C6_FirstOfBest ==
    (mpc = "ret" /\ sp /\ items # <<>>) =>
        LET m == MaxScore(artist, title, items)
            j == CHOOSE i \in 1..Len(items) :
                    /\ score(artist, title, items[i]) = m
                    /\ \A h \in 1..(i - 1) : score(artist, title, items[h]) < m
        IN  ret[2] = IF items[j].id # ""
                     THEN "https://open.spotify.com/track/" \o items[j].id
                     ELSE ""

\* Two candidates share the best score: the first one's URL is returned.
C6_Witness ==
    /\ mpc = "ret" /\ sp
    /\ Len(items) = 2
    /\ score(artist, title, items[1]) = score(artist, title, items[2])
    /\ items[1].id = "1" /\ items[2].id = "2"
    /\ ret[2] = "https://open.spotify.com/track/1"

\* The rows of a parse that survive cleaning and filtering, in page order
RECURSIVE Survivors(_)
Survivors(rows) ==
    IF rows = <<>> THEN <<>>
    ELSE LET a == Strip(rows[1].artist, Whitespace)
             t == clean_title(Strip(rows[1].title, Whitespace))
         IN  (IF a # "" /\ t # "" /\ ~should_skip(a, t)
              THEN << [artist |-> a, title |-> t] >> ELSE <<>>)
             \o Survivors(Tail(rows))

\* scrape_and_match has returned after a parse that found rows, none of
\* which survived
AllFiltered ==
    /\ run_pc = "ret"
    /\ parse_pc = "ret"
    /\ tracks # <<>>
    /\ Survivors(tracks) = <<>>

\* C1, as stated: when the parser returns rows and none survives, the
\* result of scrape_and_match has a non-empty error, different from the
\* parse-empty error, and no items.
C1_FilterEmptyIsError ==
    AllFiltered =>
        /\ result.error # ""
        /\ result.error # NoTracksError
        /\ result.items = <<>>

\* C1, amended: when the parser returns rows and none survives, the result
\* of scrape_and_match has an empty error and no items; the message "No
\* valid tracks after filtering." is printed by the command-line caller, as
\* a warning and its only line, and the process exits with status 0.
C1_FilterEmptyIsWarning ==
    AllFiltered =>
        /\ result.error = ""
        /\ result.items = <<>>
        /\ cli_pc = "exit" =>
              /\ exit_code = 0
              /\ stdout = << WARN \o " No valid tracks after filtering." >>

\* A page of two rows, both dropped, run to the end of the process.
C1_Witness ==
    /\ AllFiltered
    /\ Len(tracks) = 2
    /\ cli_pc = "exit"

\* C2: a result with an error has no items; a fetch failure returns the
\* fetch error with nothing parsed and no catalog query made; a parse that
\* yields no row returns the "no tracks found" error with no catalog query
\* made.
C2_ErrorMeansNoItems ==
    /\ result.error # "" =>
          /\ result.items = <<>>
          /\ searches = 0
          /\ match_args = <<>>
          /\ mpc = "idle"
    /\ (run_pc = "ret" /\ parse_pc = "idle") =>
          /\ result.error \in {FetchError(e) : e \in FetchExceptions}
          /\ returned_by = 0
    /\ (run_pc = "ret" /\ parse_pc = "ret" /\ tracks = <<>>) =>
          result.error = NoTracksError
    /\ result.error \in {FetchError(e) : e \in FetchExceptions} => parse_pc = "idle"
    /\ result.error = NoTracksError => parse_pc = "ret" /\ tracks = <<>>

\* A fetch failure with a client configured, reported by the process.
C2_Witness ==
    /\ sp
    /\ run_pc = "ret"
    /\ result = [error |-> "Error fetching URL: timeout", items |-> <<>>]
    /\ cli_pc = "exit"

\* C9: the items of a successful result are the rows that survive, in page
\* order, none omitted or duplicated: each has a non-empty artist and a
\* non-empty cleaned title and is not rejected by should_skip;
\* best_spotify_match was called once for each item, in that order, and for
\* no dropped row; the lines printed number the items from 01 in that order.
C9_ItemsAreSurvivors ==
    (run_pc = "ret" /\ result.error = "") =>
        LET sv == Survivors(tracks)
            its == result.items
        IN  /\ parse_pc = "ret"
            /\ Len(its) = Len(sv)
            /\ \A i \in 1..Len(its) :
                  /\ its[i].artist = sv[i].artist
                  /\ its[i].title = sv[i].title
                  /\ its[i].artist # "" /\ its[i].title # ""
                  /\ ~should_skip(its[i].artist, its[i].title)
            /\ match_args = [i \in 1..Len(sv) |-> <<sv[i].artist, sv[i].title>>]
            /\ (cli_pc = "exit" /\ its # <<>>) =>
                  /\ Len(stdout) = Len(its) + 1
                  /\ \A i \in 1..Len(its) :
                        StartsWith(stdout[i + 1],
                                   TwoDigits(i) \o ". " \o its[i].artist
                                   \o " " \o EMDASH \o " " \o its[i].title)

\* A page of two rows, one dropped and one kept, run to the end.
C9_Witness ==
    /\ run_pc = "ret"
    /\ result.error = ""
    /\ Len(tracks) = 2
    /\ Len(result.items) = 1
    /\ cli_pc = "exit"

Terminal(e) == e.name \in {"done", "error"}

\* The guard of some step of the capture.py process holds
ProcessCanStep ==
    \/ cli_pc \in {"start", "print"}
    \/ /\ cli_pc = "run"
       /\ \/ run_pc \in {"fetch", "loop", "ret"}
          \/ run_pc = "parse" /\ parse_pc \in {"tables", "classes", "rows", "ret"}
          \/ run_pc = "match" /\ mpc \in {"call", "attempt", "select", "ret"}

=============================================================================
